---- MODULE Spec2Model ----
(***************************************************************************)
(* Model of the KilterBoard_AI route search engine                         *)
(* (src/src/route_generator.py, src/src/parsing.py).                       *)
(*                                                                         *)
(* Numbers.  The engine computes with floats in [0,1].  The model uses     *)
(* exact integers on fixed grids:                                          *)
(*   - a coordinate or a distance bound is counted in 1/1200 (Scale), so   *)
(*     0.05 = 60, 0.25 = 300, 0.35 = 420 and 1/12 = 100 are all integers;  *)
(*   - a move distance is the integer square root counted in 1/12000;      *)
(*   - a fitness score is counted in 1/120000 (ScoreOne);                  *)
(*   - a difficulty is counted in 1/100.                                   *)
(* Comparisons of a distance with a reach bound are made on the squares,   *)
(* which is exact.                                                         *)
(*                                                                         *)
(* Objects.  A Python list of hold ids is an entry of `heap`; a Route is   *)
(* the index of the list its `holds` field refers to, so that two routes   *)
(* sharing one list, and a list changed in place, are visible.             *)
(***************************************************************************)
EXTENDS Integers, Sequences, FiniteSets, TLC

VARIABLES
    holds,            \* self.holds / self.holds_map: hold id -> [x, y]
    style,            \* the style dict passed by the caller
    difficulty,       \* the difficulty passed by the caller, in 1/100
    heap,             \* the list objects: heap[r] is the hold sequence of list r
    population,       \* the caller's current population: a sequence of routes
    pc,               \* where the engine is: "idle", "init", "breed", "raised"
    favorites,        \* evolve: favorites_indices (0-based, as in the code)
    scored_pop,       \* evolve: the sorted list of [route, score]
    next_gen,         \* evolve: next_gen
    pool,             \* evolve: pool
    pop,              \* init_population: pop
    current_pop,      \* evolve: the population it was called with
    generation_count, \* app.py: 0 before the first population, +1 per evolve
    heap0,            \* the heap when evolve was called
    returned,         \* who made the population: "none", "init", "caller", "evolve"
    call              \* last call of a pure function: its inputs and its result

vars == <<holds, style, difficulty, heap, population, pc, favorites, scored_pop,
          next_gen, pool, pop, current_pop, generation_count, heap0,
          returned, call>>

----------------------------------------------------------------------------
(* Bounds of the model *)

\* Iterations at the end of a loop (of init_population, of evolve's breeding)
\* whose random draws are all explored; in the iterations before them every
\* draw takes its first value and no mutation happens.
MaxFreeDraws == 1

----------------------------------------------------------------------------
(* Units and program constants *)

Scale == 12 * 100
ScoreOne == Scale * 100
Hundredths(n) == n * 12

population_size == 24
elite_size == 4
pool_limit == 12
base_length == 5
max_increase == 10
max_route_len == 16
min_remove_len == 4

Min2(a, b) == IF a < b THEN a ELSE b
Max2(a, b) == IF a > b THEN a ELSE b
Abs(a) == IF a < 0 THEN -a ELSE a
MinOf(S) == CHOOSE x \in S : \A y \in S : x <= y

RECURSIVE SqrtSearch(_, _, _)
SqrtSearch(n, lo, hi) ==
    IF lo >= hi THEN lo
    ELSE LET mid == (lo + hi + 1) \div 2
         IN IF mid * mid <= n THEN SqrtSearch(n, mid, hi)
            ELSE SqrtSearch(n, lo, mid - 1)

\* math.sqrt on the grid: the largest r with r*r <= n
ISqrt(n) == SqrtSearch(n, 0, 20000)

\* A random draw from the set S: any element, or the first one when the
\* draw is pinned.
Draw(S, free) == IF free \/ S = {} THEN S ELSE {MinOf(S)}

----------------------------------------------------------------------------
(* parsing.parse_style *)

DefaultParams ==
    [avg_move_dist |-> Hundredths(18), variance_penalty |-> 5,
     dynamic_weight |-> 0, reach_min |-> Hundredths(5),
     reach_max |-> Hundredths(35), avg_hold_size |-> 0]

ApplyStyle(params, s) ==
    IF s = "Dynamic"
    THEN [params EXCEPT !.avg_move_dist = Hundredths(25), !.variance_penalty = 2,
                        !.dynamic_weight = 5, !.reach_max = Hundredths(45)]
    ELSE IF s = "Crimpy/Technical"
    THEN [params EXCEPT !.avg_move_dist = Hundredths(12), !.variance_penalty = 7,
                        !.reach_max = Hundredths(25)]
    ELSE IF s = "Traverse/Endurance"
    THEN [params EXCEPT !.avg_move_dist = Hundredths(15)]
    ELSE IF s = "Sloper/Pinch"
    THEN [params EXCEPT !.avg_hold_size = 7]
    ELSE params

RECURSIVE FoldStyles(_, _)
FoldStyles(params, active_styles) ==
    IF active_styles = <<>> THEN params
    ELSE FoldStyles(ApplyStyle(params, Head(active_styles)), Tail(active_styles))

parse_style(active_styles) == FoldStyles(DefaultParams, active_styles)

style_options == <<"Dynamic", "Crimpy/Technical", "Traverse/Endurance", "Sloper/Pinch">>

RECURSIVE Checked(_, _)
\* the checked options, in the order of style_options (app.py appends in that order)
Checked(S, i) ==
    IF i > Len(style_options) THEN <<>>
    ELSE (IF i \in S THEN <<style_options[i]>> ELSE <<>>) \o Checked(S, i + 1)

AppStyles == {parse_style(Checked(S, 1)) : S \in SUBSET (1..Len(style_options))}

----------------------------------------------------------------------------
(* Hold geometry *)

DistSq(h1, h2) == (h1.x - h2.x) * (h1.x - h2.x) + (h1.y - h2.y) * (h1.y - h2.y)

\* the move distance in 1/12000
Dist(h1, h2) == ISqrt(DistSq(h1, h2) * 100)

DownTolerance == Scale \div 20
StartBand == Scale \div 4

_get_reachable_holds(H, current_id, st) ==
    {hid \in DOMAIN H :
        /\ hid # current_id
        /\ st.reach_min * st.reach_min < DistSq(H[hid], H[current_id])
        /\ DistSq(H[hid], H[current_id]) < st.reach_max * st.reach_max
        /\ H[hid].y - H[current_id].y > -DownTolerance}

_get_target_length(d) == base_length + (d * max_increase) \div 100

----------------------------------------------------------------------------
(* _machine_fitness *)

RECURSIVE SumDists(_, _, _)
SumDists(H, route, i) ==
    IF i >= Len(route) THEN 0
    ELSE Dist(H[route[i]], H[route[i + 1]]) + SumDists(H, route, i + 1)

\* the penalty of a downward move added instead of subtracted
DownwardReward == -(ScoreOne \div 10)

DownwardPenalty == ScoreOne \div 10

\* the score before the final clamp
RawFitness(H, route, st, d) ==
    LET n == Len(route)
        moves == 1..(n - 1)
        down == Cardinality({i \in moves : H[route[i + 1]].y < H[route[i]].y - DownTolerance})
        out == Cardinality({i \in moves :
                   \/ DistSq(H[route[i]], H[route[i + 1]]) < st.reach_min * st.reach_min
                   \/ DistSq(H[route[i]], H[route[i + 1]]) > st.reach_max * st.reach_max})
        avg_dist == SumDists(H, route, 1) \div (n - 1)
        target == st.avg_move_dist * 10
        vertical_gain == H[route[n]].y - H[route[1]].y
        length_deviation == Abs(n - _get_target_length(d))
    IN  ScoreOne \div 2
        - down * DownwardPenalty
        - out * (ScoreOne \div 20)
        - Abs(avg_dist - target) * st.variance_penalty
        + vertical_gain * 10
        - length_deviation * (ScoreOne \div 20)

_machine_fitness(H, route, st, d) ==
    IF Len(route) < 3 THEN 0
    ELSE Max2(0, Min2(ScoreOne, RawFitness(H, route, st, d)))

----------------------------------------------------------------------------
(* _create_random_route_ids: the biased random walk *)

\* weight = 0.5 + max(0, progress * 2.0), in 1/1200
HoldWeight(H, current, hid) == Scale \div 2 + Max2(0, (H[hid].y - H[current].y) * 2)

\* random.choices(possible, weights): the holds it can return
WeightedChoices(H, current, possible) ==
    {hid \in possible : HoldWeight(H, current, hid) > 0}

\* "if possible: break" in place of "if not possible: break"
StopsAtReachable(possible) == possible # {}

\* if not possible: break
StopsAtDeadEnd(possible) == possible = {}

\* for _ in range(remaining): the routes the loop can end with
RECURSIVE Walk(_, _, _, _, _)
Walk(H, st, route, remaining, free) ==
    IF remaining <= 0 THEN {route}
    ELSE LET current == route[Len(route)]
             possible == _get_reachable_holds(H, current, st)
         IN  IF StopsAtDeadEnd(possible) THEN {route}
             ELSE UNION {Walk(H, st, Append(route, nxt), remaining - 1, free) :
                            nxt \in Draw(WeightedChoices(H, current, possible), free)}

\* range(length) in place of range(length - 1)
WalkStepsOffByOne(length) == length

WalkSteps(length) == length - 1

StartHolds(H) == {h \in DOMAIN H : H[h].y < StartBand}

\* every route _create_random_route_ids(length, style) can return
_create_random_route_ids(H, length, st, free) ==
    IF StartHolds(H) = {} THEN {<<>>}
    ELSE UNION {Walk(H, st, <<current>>, WalkSteps(length), free) :
                   current \in Draw(StartHolds(H), free)}

\* route_len = max(4, target_base_len + random.randint(-2, 2))
RouteLens(d, free) ==
    {Max2(4, _get_target_length(d) + delta) : delta \in Draw(-2..2, free)}

----------------------------------------------------------------------------
(* _crossover *)

\* random.randint(0, min_len - 1) in place of random.randint(1, min_len - 1)
CutPointsFromZero(p1, p2) == 0..(Min2(Len(p1), Len(p2)) - 1)

CutPoints(p1, p2) == 1..(Min2(Len(p1), Len(p2)) - 1)

\* p1[:cut_point] + p2[cut_point:]
Splice(p1, p2, cut_point) ==
    SubSeq(p1, 1, cut_point) \o SubSeq(p2, cut_point + 1, Len(p2))

\* what _crossover(p1, p2) can return: p1 itself (the same list), or a new list
_crossover(p1, p2, free) ==
    IF Len(p1) < 2 \/ Len(p2) < 2
    THEN {[same |-> TRUE, cut |-> 0, ids |-> p1]}
    ELSE {[same |-> FALSE, cut |-> c, ids |-> Splice(p1, p2, c)] :
             c \in Draw(CutPoints(p1, p2), free)}

----------------------------------------------------------------------------
(* _mutate: every [kind, ids] a call can leave in the list route_ids.  kind  *)
(* is the operation that changed the list, "none" when nothing was done.    *)

mutation_types == <<"nudge", "nudge", "add", "remove">>

Nudge(H, route_ids, st) ==
    UNION {LET neighbors == _get_reachable_holds(H, route_ids[idx], st)
           IN  IF neighbors = {} THEN {[kind |-> "none", ids |-> route_ids]}
               ELSE {[kind |-> "nudge", ids |-> [route_ids EXCEPT ![idx + 1] = n]] :
                        n \in neighbors}
           : idx \in 1..(Len(route_ids) - 2)}

AddGuard(route_ids) == Len(route_ids) < max_route_len

Add(H, route_ids, st) ==
    IF ~AddGuard(route_ids) THEN {[kind |-> "none", ids |-> route_ids]}
    ELSE UNION {LET possible_inserts == _get_reachable_holds(H, route_ids[idx], st)
                IN  IF possible_inserts = {} THEN {[kind |-> "none", ids |-> route_ids]}
                    ELSE {[kind |-> "add",
                           ids |-> SubSeq(route_ids, 1, idx) \o <<new_hold>>
                                   \o SubSeq(route_ids, idx + 1, Len(route_ids))] :
                             new_hold \in possible_inserts}
                : idx \in 1..(Len(route_ids) - 1)}

\* len(route_ids) >= 3 in place of len(route_ids) > 4
RemoveGuardTooWeak(route_ids) == Len(route_ids) >= 3

RemoveGuard(route_ids) == Len(route_ids) > min_remove_len

Remove(route_ids) ==
    IF ~RemoveGuard(route_ids) THEN {[kind |-> "none", ids |-> route_ids]}
    ELSE {[kind |-> "remove",
           ids |-> SubSeq(route_ids, 1, idx) \o SubSeq(route_ids, idx + 2, Len(route_ids))] :
             idx \in 1..(Len(route_ids) - 2)}

_mutate(H, route_ids, st) ==
    IF Len(route_ids) < 3 THEN {[kind |-> "none", ids |-> route_ids]}
    ELSE UNION {IF mutation_types[t] = "nudge" THEN Nudge(H, route_ids, st)
                ELSE IF mutation_types[t] = "add" THEN Add(H, route_ids, st)
                ELSE Remove(route_ids)
                : t \in 1..Len(mutation_types)}

----------------------------------------------------------------------------
(* Inputs: the hold graphs, styles and routes the operations are run on *)

Hold(px, py) == [x |-> px, y |-> py]

\* A column of five holds from the floor to the top (the top one a dead end),
\* a start hold (6) with no reachable neighbour, and a hold (7) that can be
\* reached from hold 3 and leads on to hold 4.
BoardGraph ==
    <<Hold(600, 0), Hold(600, 300), Hold(600, 600), Hold(600, 900), Hold(600, 1200),
      Hold(0, 100), Hold(800, 700)>>

\* The same column with two holds at the top: no hold is a dead end.
TallGraph ==
    <<Hold(600, 0), Hold(600, 300), Hold(600, 600), Hold(600, 900), Hold(600, 1200),
      Hold(1000, 1200)>>

\* A graph with no hold in the bottom quarter.
NoStartGraph == <<Hold(600, 300), Hold(600, 600), Hold(800, 600)>>

Graphs == {BoardGraph, TallGraph, NoStartGraph}

\* Longest route given to _mutate and _machine_fitness as an input
MaxRouteLen == 17

\* Longest length_target given to the synthesizer on its own
MaxLengthTarget == 7

\* Longest parent given to _crossover on its own
MaxParentLen == 4

Alternating(a, b, n) == [i \in 1..n |-> IF i % 2 = 1 THEN a ELSE b]

\* routes over the graph H: what walks, splices and mutations leave behind
InputRoutes(H) ==
    {Alternating(a, b, n) : a \in DOMAIN H, b \in DOMAIN H, n \in 0..MaxRouteLen}

NoCall == [fn |-> "none"]

\* the part of the state the engine's own operations use, at rest
EngineAtRest ==
    /\ heap = <<>>
    /\ population = <<>>
    /\ pc = "idle"
    /\ favorites = {}
    /\ scored_pop = <<>>
    /\ next_gen = <<>>
    /\ pool = <<>>
    /\ pop = <<>>
    /\ current_pop = <<>>
    /\ generation_count = 0
    /\ heap0 = <<>>
    /\ returned = "none"

EngineUnchanged ==
    UNCHANGED <<holds, style, difficulty, heap, population, pc, favorites, scored_pop,
                next_gen, pool, pop, current_pop, generation_count, heap0,
                returned>>

----------------------------------------------------------------------------
(* The synthesizer called on its own *)

InitSynth ==
    /\ holds \in Graphs
    /\ style \in AppStyles
    /\ difficulty = 45
    /\ call = NoCall
    /\ EngineAtRest

Synthesize ==
    /\ call.fn = "none"
    /\ \E length \in 1..MaxLengthTarget :
         \E route \in _create_random_route_ids(holds, length, style, TRUE) :
            call' = [fn |-> "synthesize", length |-> length, route |-> route]
    /\ EngineUnchanged

NextSynth == Synthesize

SpecSynth == InitSynth /\ [][NextSynth]_vars

----------------------------------------------------------------------------
(* _crossover called on its own *)

Parents == UNION {[1..n -> 1..3] : n \in 0..MaxParentLen}

InitCrossover ==
    /\ holds = BoardGraph
    /\ style = DefaultParams
    /\ difficulty = 45
    /\ call = NoCall
    /\ EngineAtRest

Crossover ==
    /\ call.fn = "none"
    /\ \E p1 \in Parents, p2 \in Parents :
         \E child \in _crossover(p1, p2, TRUE) :
            call' = [fn |-> "crossover", p1 |-> p1, p2 |-> p2, child |-> child]
    /\ EngineUnchanged

NextCrossover == Crossover

SpecCrossover == InitCrossover /\ [][NextCrossover]_vars

----------------------------------------------------------------------------
(* _mutate called on its own *)

InitMutate ==
    /\ holds \in Graphs
    /\ style \in {DefaultParams, parse_style(<<"Crimpy/Technical">>)}
    /\ difficulty = 45
    /\ call = NoCall
    /\ EngineAtRest

Mutate ==
    /\ call.fn = "none"
    /\ \E route_ids \in InputRoutes(holds) :
         \E m \in _mutate(holds, route_ids, style) :
            call' = [fn |-> "mutate", route_ids |-> route_ids, kind |-> m.kind,
                     result |-> m.ids]
    /\ EngineUnchanged

NextMutate == Mutate

SpecMutate == InitMutate /\ [][NextMutate]_vars

----------------------------------------------------------------------------
(* Claims about the operations called on their own *)

\* C8: crossover(p1, p2) with len(p1) >= 2 and len(p2) >= 2 returns, for some
\* cut in 1 .. min(len(p1), len(p2)) - 1, the first cut holds of p1 followed
\* by the holds of p2 from position cut on, and the length of the result lies
\* in [1, max(len(p1), len(p2))]; when either parent has fewer than 2 holds it
\* returns p1.
C8_CrossoverSplice ==
    call.fn = "crossover" =>
        LET p1 == call.p1
            p2 == call.p2
            r == call.child.ids
        IN  IF Len(p1) >= 2 /\ Len(p2) >= 2
            THEN /\ \E cut \in 1..(Min2(Len(p1), Len(p2)) - 1) :
                       /\ Len(r) = Len(p2)
                       /\ \A i \in 1..cut : r[i] = p1[i]
                       /\ \A i \in (cut + 1)..Len(p2) : r[i] = p2[i]
                 /\ Len(r) >= 1
                 /\ Len(r) <= Max2(Len(p1), Len(p2))
            ELSE r = p1 /\ call.child.same

\* a crossover of a longer first parent with a shorter second one, cut after
\* the second hold
C8_Witness ==
    /\ call.fn = "crossover"
    /\ Len(call.p1) = 4
    /\ Len(call.p2) = 3
    /\ call.child.cut = 2
    /\ call.child.ids = <<call.p1[1], call.p1[2], call.p2[3]>>
    /\ call.p1[3] # call.p2[3]

\* C9: mutate applied to a route of length 3 never performs the remove
\* operation, and for every input of length >= 3 a single mutate returns a
\* sequence of length >= 3: remove applies only when length > 4, add only when
\* length < 16, and nudge and remove never replace or remove the first and
\* the last hold.
C9_MutateKeepsThree ==
    (call.fn = "mutate" /\ Len(call.route_ids) >= 3) =>
        LET before == call.route_ids
            after == call.result
        IN  /\ Len(after) >= 3
            /\ Len(before) = 3 => call.kind # "remove"
            /\ call.kind = "remove" => Len(before) > 4 /\ Len(after) = Len(before) - 1
            /\ call.kind = "add" => Len(before) < 16 /\ Len(after) = Len(before) + 1
            /\ call.kind = "nudge" => Len(after) = Len(before)
            /\ call.kind \in {"nudge", "remove"} =>
                   after[1] = before[1] /\ after[Len(after)] = before[Len(before)]

\* a route of three holds that a mutation changed
C9_Witness ==
    /\ call.fn = "mutate"
    /\ Len(call.route_ids) = 3
    /\ call.kind \in {"nudge", "add"}
    /\ call.result # call.route_ids

\* b can follow a in a walk: another hold, strictly inside the reach bounds,
\* and not more than 0.05 below
Walkable(a, b) ==
    /\ b # a
    /\ DistSq(holds[a], holds[b]) > style.reach_min * style.reach_min
    /\ DistSq(holds[a], holds[b]) < style.reach_max * style.reach_max
    /\ (holds[b].y - holds[a].y) * 20 > -Scale

\* C10: every route the synthesizer returns for a length_target >= 1 on a
\* graph with a hold with y < 0.25 starts at a hold with y < 0.25, has between
\* 1 and length_target holds, every consecutive pair of it is walkable, and it
\* is shorter than length_target only when its last hold has no walkable
\* neighbour.
C10_SynthesizedRouteWalkable ==
    (call.fn = "synthesize" /\ \E h \in DOMAIN holds : holds[h].y * 4 < Scale) =>
        LET r == call.route
        IN  /\ Len(r) >= 1
            /\ Len(r) <= call.length
            /\ holds[r[1]].y * 4 < Scale
            /\ \A i \in 1..(Len(r) - 1) : Walkable(r[i], r[i + 1])
            /\ Len(r) < call.length => ~ \E h \in DOMAIN holds : Walkable(r[Len(r)], h)

\* a walk that ended early at a dead end after at least one move
C10_Witness ==
    /\ call.fn = "synthesize"
    /\ Len(call.route) >= 2
    /\ Len(call.route) < call.length
    /\ _get_reachable_holds(holds, call.route[Len(call.route)], style) = {}

----------------------------------------------------------------------------
(* _machine_fitness called on its own *)

\* Step between the difficulties given to _machine_fitness, in 1/100
DifficultyStep == 5

Difficulties == {d \in 0..100 : d % DifficultyStep = 0 \/ d = 45}

\* Holds A = 1, B = 2, C = 3 with A.y = 0.1, B.y = 0.15, C.y = 0.3, and a
\* hold 4 that stands for C moved down below B.y - 0.05.
ScenarioGraphs ==
    {<<Hold(600, 120), Hold(bx, 180), Hold(cx, 360), Hold(lx, ly)>> :
        bx \in {600, 660, 800}, cx \in {600, 800}, lx \in {600, 800},
        ly \in {0, 60, 119}}

UpRoute == <<1, 2, 3>>
DownRoute == <<1, 2, 4>>

ScoredLists == {<<UpRoute, DownRoute>>, <<DownRoute, UpRoute>>, <<<<1, 2>>, <<4, 2, 1, 3>>>>}

InitFitness ==
    /\ holds \in ScenarioGraphs
    /\ style \in AppStyles
    /\ difficulty \in Difficulties
    /\ call = NoCall
    /\ EngineAtRest

Score ==
    /\ call.fn = "none"
    /\ \E routes \in ScoredLists :
         call' = [fn |-> "fitness", routes |-> routes,
                  scores |-> [i \in DOMAIN routes |->
                                 _machine_fitness(holds, routes[i], style, difficulty)]]
    /\ EngineUnchanged

NextFitness == Score

SpecFitness == InitFitness /\ [][NextFitness]_vars

\* every move of the route has a distance inside [reach_min, reach_max]
InsideReach(route) ==
    \A i \in 1..(Len(route) - 1) :
        /\ DistSq(holds[route[i]], holds[route[i + 1]]) >= style.reach_min * style.reach_min
        /\ DistSq(holds[route[i]], holds[route[i + 1]]) <= style.reach_max * style.reach_max

\* the scenario of C7 was scored: the route A, B, C first, its lowered twin second
ScenarioScored ==
    /\ call.fn = "fitness"
    /\ call.routes = <<UpRoute, DownRoute>>
    /\ holds[4].y < holds[2].y - DownTolerance
    /\ InsideReach(UpRoute)
    /\ InsideReach(DownRoute)

\* C7 as claimed: for every difficulty in [0,1] and every style the route
\* A, B, C scores strictly higher than the route whose last move goes down.
C7_UpwardStrictlyHigher ==
    ScenarioScored => call.scores[1] > call.scores[2]

\* C7 as amended: the route A, B, C never scores lower than its lowered twin,
\* and scores strictly higher whenever its own score is above 0, which is the
\* case for every difficulty below 0.7; when the length penalty brings its
\* score down to the clamp, both scores are 0.
C7_UpwardHigherUnlessClamped ==
    ScenarioScored =>
        /\ call.scores[1] >= call.scores[2]
        /\ call.scores[1] > 0 => call.scores[1] > call.scores[2]
        /\ call.scores[1] = 0 => call.scores[2] = 0
        /\ difficulty < 70 => call.scores[1] > call.scores[2]

\* the scenario scored at a difficulty where the upward route is above the clamp
C7_Witness ==
    /\ ScenarioScored
    /\ call.scores[1] > call.scores[2]
    /\ call.scores[2] > 0

----------------------------------------------------------------------------
(* The engine: init_population and evolve *)

\* Calls of evolve in a row
MaxGenerations == 1

SpecStyles == {DefaultParams}

\* 0.45 is the default of parse_difficulty, 1.0 the hardest grade
SpecDifficulties == {45, 100}

Init ==
    /\ holds \in Graphs
    /\ style \in SpecStyles
    /\ difficulty \in SpecDifficulties
    /\ call = NoCall
    /\ EngineAtRest

\* whether the draws of the next iteration are explored exhaustively, in a
\* loop that fills the list `sofar` up to population_size
FreeDraw(sofar) == population_size - Len(sofar) <= MaxFreeDraws

(* init_population *)

InitPopulationCall ==
    /\ pc = "idle"
    /\ returned = "none"
    /\ pc' = "init"
    /\ pop' = <<>>
    /\ UNCHANGED <<holds, style, difficulty, heap, population, favorites, scored_pop,
                   next_gen, pool, current_pop, generation_count, heap0, returned, call>>

\* one iteration of "for _ in range(self.population_size)"
InitPopulationStep ==
    /\ pc = "init"
    /\ Len(pop) < population_size
    /\ \E route_len \in RouteLens(difficulty, FreeDraw(pop)) :
         \E route_ids \in _create_random_route_ids(holds, route_len, style, FreeDraw(pop)) :
            /\ heap' = Append(heap, route_ids)
            /\ pop' = Append(pop, Len(heap) + 1)
    /\ UNCHANGED <<holds, style, difficulty, population, pc, favorites, scored_pop,
                   next_gen, pool, current_pop, generation_count, heap0, returned, call>>

InitPopulationReturn ==
    /\ pc = "init"
    /\ Len(pop) >= population_size
    /\ population' = pop
    /\ generation_count' = 1
    /\ pc' = "idle"
    /\ returned' = "init"
    /\ UNCHANGED <<holds, style, difficulty, heap, favorites, scored_pop, next_gen,
                   pool, pop, current_pop, heap0, call>>

(* a population the caller made itself *)

CallerSizes == {0, 1, 3, population_size + 1}

CallerRoutes(H, st) ==
    UNION {_create_random_route_ids(H, length, st, FALSE) : length \in {1, 7}}

\* n routes, each with a list of its own: the first holds a, the others b
Mixed(n, a, b) == [i \in 1..n |-> IF i = 1 THEN a ELSE b]

CallerPopulations(H, st) ==
    {Mixed(n, a, b) : n \in CallerSizes, a \in CallerRoutes(H, st), b \in CallerRoutes(H, st)}

CallerMakesPopulation ==
    /\ pc = "idle"
    /\ returned = "none"
    /\ \E lists \in CallerPopulations(holds, style) :
         /\ heap' = lists
         /\ population' = [i \in 1..Len(lists) |-> i]
    /\ generation_count' = 1
    /\ returned' = "caller"
    /\ UNCHANGED <<holds, style, difficulty, pc, favorites, scored_pop, next_gen, pool,
                   pop, current_pop, heap0, call>>

(* evolve *)

\* (A * human_boost) + (C * m_fitness) with A = 0.7 and C = 0.3, times 10
HybridScore(is_favorite, m_fitness) ==
    7 * (IF is_favorite THEN ScoreOne ELSE 0) + 3 * m_fitness

\* a sort that puts the lowest score first
SortsBeforeAscending(a, b) ==
    a.score < b.score \/ (a.score = b.score /\ a.index < b.index)

\* sort(key = score, reverse = True): the higher score first, and of two
\* equal scores the one that stood first (the sort is stable)
SortsBefore(a, b) ==
    a.score > b.score \/ (a.score = b.score /\ a.index < b.index)

Sorted(scored) ==
    LET rank(i) == 1 + Cardinality({j \in DOMAIN scored : SortsBefore(scored[j], scored[i])})
    IN  [k \in DOMAIN scored |-> scored[CHOOSE i \in DOMAIN scored : rank(i) = k]]

\* the (route, total_score) pairs, with the index each route had in current_pop
Scored(H, hp, routes, favs, st, d) ==
    SubSeq([i \in DOMAIN routes |->
               [route |-> routes[i], index |-> i - 1,
                score |-> HybridScore(i - 1 \in favs,
                                      _machine_fitness(H, hp[routes[i]], st, d))]],
           1, Len(routes))

FavoriteSets(n) == {{}, {0}, {n - 1}}

Prefix(seq, n) == SubSeq(seq, 1, Min2(n, Len(seq)))

\* evolve up to the breeding loop: scoring, sort, elitism, pool
EvolveCall ==
    /\ pc = "idle"
    /\ generation_count <= MaxGenerations
    /\ returned # "none"
    /\ \E favs \in FavoriteSets(Len(population)) :
         LET sorted == Sorted(Scored(holds, heap, population, favs, style, difficulty))
             routes == [k \in DOMAIN sorted |-> sorted[k].route]
         IN  /\ favorites' = favs
             /\ scored_pop' = sorted
             /\ next_gen' = Prefix(routes, elite_size)
             /\ pool' = Prefix(routes, pool_limit)
    /\ current_pop' = population
    /\ heap0' = heap
    /\ pc' = "breed"
    /\ UNCHANGED <<holds, style, difficulty, heap, population, pop, generation_count,
                   returned, call>>

\* len(next_gen) <= self.population_size in place of <
BreedGuardOneMore == Len(next_gen) <= population_size

\* while len(next_gen) < self.population_size
BreedGuard == Len(next_gen) < population_size

\* one iteration of the breeding loop
Breed ==
    /\ pc = "breed"
    /\ BreedGuard
    /\ pool # <<>>
    /\ \E i1 \in Draw(1..Len(pool), FreeDraw(next_gen)), i2 \in Draw(1..Len(pool), FreeDraw(next_gen)) :
         \E child \in _crossover(heap[pool[i1]], heap[pool[i2]], FreeDraw(next_gen)) :
            LET child_ids == IF child.same THEN pool[i1] ELSE Len(heap) + 1
                crossed == IF child.same THEN heap ELSE Append(heap, child.ids)
            IN  /\ \/ /\ heap' = crossed
                      /\ call' = [fn |-> "breed", p1 |-> pool[i1], p2 |-> pool[i2],
                                  child |-> child_ids, kind |-> "unmutated"]
                   \/ /\ FreeDraw(next_gen)
                      /\ \E m \in _mutate(holds, crossed[child_ids], style) :
                           /\ heap' = [crossed EXCEPT ![child_ids] = m.ids]
                           /\ call' = [fn |-> "breed", p1 |-> pool[i1], p2 |-> pool[i2],
                                       child |-> child_ids, kind |-> m.kind]
                /\ next_gen' = Append(next_gen, child_ids)
    /\ UNCHANGED <<holds, style, difficulty, population, pc, favorites, scored_pop, pool,
                   pop, current_pop, generation_count, heap0, returned>>

\* random.choice(pool) on an empty pool raises IndexError
BreedRaises ==
    /\ pc = "breed"
    /\ BreedGuard
    /\ pool = <<>>
    /\ pc' = "raised"
    /\ UNCHANGED <<holds, style, difficulty, heap, population, favorites, scored_pop,
                   next_gen, pool, pop, current_pop, generation_count, heap0,
                   returned, call>>

\* return next_gen; app.py stores it and counts the generation
EvolveReturn ==
    /\ pc = "breed"
    /\ ~BreedGuard
    /\ population' = next_gen
    /\ generation_count' = generation_count + 1
    /\ pc' = "idle"
    /\ returned' = "evolve"
    /\ UNCHANGED <<holds, style, difficulty, heap, favorites, scored_pop, next_gen, pool,
                   pop, current_pop, heap0, call>>

Next ==
    \/ InitPopulationCall
    \/ InitPopulationStep
    \/ InitPopulationReturn
    \/ CallerMakesPopulation
    \/ EvolveCall
    \/ Breed
    \/ BreedRaises
    \/ EvolveReturn

Spec == Init /\ [][Next]_vars

----------------------------------------------------------------------------
(* Claims about init_population and evolve *)

\* evolve has returned, and the state still holds what it was called with
EvolveReturned == pc = "idle" /\ returned = "evolve"

\* the elites of the call: the first min(4, n) routes of the sorted list
Elites == {scored_pop[k].route : k \in 1..Min2(elite_size, Len(scored_pop))}

\* C1 (elitism): the 4 routes with the highest hybrid score at the sort are in
\* the population evolve returns, each with exactly the hold sequence it had
\* when evolve was called, whatever the breeding of the other children did.
C1_ElitesUnchanged ==
    EvolveReturned =>
        \A e \in Elites :
            /\ \E j \in DOMAIN population : population[j] = e
            /\ heap[e] = heap0[e]

\* the last child of the call was changed by _mutate
LastChildMutated == call.fn = "breed" /\ call.kind \in {"nudge", "add", "remove"}

\* C2 (lineage safety): crossover and mutate return a new sequence, so after
\* evolve returns every route of the input population has the hold sequence
\* it had before the call, and the list of a mutated child is shared neither
\* with a parent nor with another route of the new population.
C2_ParentsAndChildrenApart ==
    EvolveReturned =>
        /\ \A i \in DOMAIN current_pop : heap[current_pop[i]] = heap0[current_pop[i]]
        /\ LastChildMutated =>
              /\ call.child \notin DOMAIN heap0
              /\ \A j \in 1..(Len(population) - 1) : population[j] # call.child

\* C3: evolve returns exactly population_size (24) routes for every non-empty
\* input population, whatever its size, the favorites and the route lengths;
\* the breeding loop never runs past 24 routes and never finds its pool empty.
C3_ReturnsPopulationSize ==
    current_pop # <<>> =>
        /\ pc # "raised"
        /\ EvolveReturned => Len(population) = 24
        /\ pc = "breed" => /\ Len(next_gen) <= 24
                           /\ Len(next_gen) >= Min2(4, Len(current_pop))
                           /\ pool # <<>>

\* evolve returned 24 routes for an input of more than 24 routes, some of
\* them too short to be scored
C3_Witness ==
    /\ EvolveReturned
    /\ Len(current_pop) > 24
    /\ Len(population) = 24
    /\ \E i \in DOMAIN current_pop : Len(heap0[current_pop[i]]) < 3

\* C4: evolve never raises; called with an empty population it returns a
\* population of fewer than 24 routes.
C4_EvolveNeverRaises ==
    /\ pc # "raised"
    /\ (EvolveReturned /\ current_pop = <<>>) => Len(population) < 24

IsFavorite(entry) == entry.index \in favorites

MachineScores ==
    {_machine_fitness(holds, heap0[current_pop[i]], style, difficulty) :
        i \in DOMAIN current_pop}

\* the sort and the elitism of evolve are done and no child is bred yet
JustSorted == pc = "breed" /\ Len(next_gen) = Min2(elite_size, Len(scored_pop))

\* C5 (human-boost dominance): after the sort of evolve every route whose
\* index is a favorite stands before every route whose index is not; when
\* index 0 is the only favorite and all machine scores are equal, the route
\* of index 0 is first after the sort, and the first route after the sort is
\* the first route of the population evolve returns.
C5_FavoritesFirst ==
    /\ (pc = "breed" \/ EvolveReturned) =>
          \A a \in DOMAIN scored_pop : \A b \in DOMAIN scored_pop :
              (IsFavorite(scored_pop[a]) /\ ~IsFavorite(scored_pop[b])) => a < b
    /\ (JustSorted /\ favorites = {0} /\ current_pop # <<>>
          /\ Cardinality(MachineScores) = 1) =>
              /\ scored_pop[1].index = 0
              /\ scored_pop[1].route = current_pop[1]
    /\ (pc = "breed" /\ current_pop # <<>>) => next_gen[1] = scored_pop[1].route
    /\ EvolveReturned => population[1] = scored_pop[1].route

\* the only favorite is the last route, its machine score is the lowest, and
\* it was sorted first
C5_Witness ==
    /\ pc = "breed"
    /\ Len(current_pop) >= 3
    /\ favorites = {Len(current_pop) - 1}
    /\ scored_pop[1].index = Len(current_pop) - 1
    /\ _machine_fitness(holds, heap0[current_pop[Len(current_pop)]], style, difficulty)
         < _machine_fitness(holds, heap0[current_pop[1]], style, difficulty)

\* init_population(0.45, default style) has returned on a graph whose holds
\* span [0,1] in y and that has a hold with y < 0.25
InitReturnedOnFullGraph ==
    /\ pc = "idle"
    /\ returned = "init"
    /\ difficulty = 45
    /\ style = DefaultParams
    /\ \E h \in DOMAIN holds : holds[h].y = 0
    /\ \E h \in DOMAIN holds : holds[h].y = Scale
    /\ \E h \in DOMAIN holds : holds[h].y * 4 < Scale

\* C6 as claimed: init_population(0.45, default style) returns 24 routes, none
\* empty and each with a length in [4, 15], also when the walk reaches a hold
\* with no reachable neighbour.
C6_LengthsFourToFifteen ==
    InitReturnedOnFullGraph =>
        /\ Len(population) = 24
        /\ \A i \in DOMAIN population :
              Len(heap[population[i]]) >= 4 /\ Len(heap[population[i]]) <= 15

\* C6 as amended: init_population(0.45, default style) returns 24 routes, none
\* empty and none longer than 15, and each with at least 4 holds unless its
\* walk stopped at a hold with no reachable neighbour.
C6_LengthsUnlessDeadEnd ==
    InitReturnedOnFullGraph =>
        /\ Len(population) = 24
        /\ \A i \in DOMAIN population :
              LET r == heap[population[i]]
              IN  /\ Len(r) >= 1
                  /\ Len(r) <= 15
                  /\ Len(r) < 4 => ~ \E h \in DOMAIN holds : Walkable(r[Len(r)], h)

\* a population with a route of one hold beside routes of five holds
C6_Witness ==
    /\ InitReturnedOnFullGraph
    /\ \E i \in DOMAIN population : Len(heap[population[i]]) = 1
    /\ \E i \in DOMAIN population : Len(heap[population[i]]) >= 5

----------------------------------------------------------------------------
(* parse_difficulty (src/src/parsing.py)                                   *)
(*                                                                         *)
(* A text is a sequence of one-character strings.  A value returned by     *)
(* parse_difficulty is counted in 1/200 (GradeOne), so that the average of *)
(* two table values, which are multiples of 0.01, is an integer.           *)

GradeOne == 2 * 100

\* 0.03, the step of the "soft" and "hard" modifiers
ModifierStep == 2 * 3

\* 0.45, the value returned when nothing is recognized
DefaultGrade == 2 * 45

LowerCase ==
    <<"a", "b", "c", "d", "e", "f", "g", "h", "i", "j", "k", "l", "m",
      "n", "o", "p", "q", "r", "s", "t", "u", "v", "w", "x", "y", "z">>

UpperCase ==
    <<"A", "B", "C", "D", "E", "F", "G", "H", "I", "J", "K", "L", "M",
      "N", "O", "P", "Q", "R", "S", "T", "U", "V", "W", "X", "Y", "Z">>

Digits == <<"0", "1", "2", "3", "4", "5", "6", "7", "8", "9">>

IsDigit(c) == \E i \in DOMAIN Digits : Digits[i] = c

\* str.upper()
upper(text) ==
    [i \in DOMAIN text |->
        IF \E k \in DOMAIN LowerCase : LowerCase[k] = text[i]
        THEN UpperCase[CHOOSE k \in DOMAIN LowerCase : LowerCase[k] = text[i]]
        ELSE text[i]]

RECURSIVE lstrip(_)
lstrip(text) ==
    IF text # <<>> /\ Head(text) = " " THEN lstrip(Tail(text)) ELSE text

RECURSIVE rstrip(_)
rstrip(text) ==
    IF text # <<>> /\ text[Len(text)] = " "
    THEN rstrip(SubSeq(text, 1, Len(text) - 1))
    ELSE text

\* str.strip()
strip(text) == rstrip(lstrip(text))

StartsWith(text, word) ==
    Len(text) >= Len(word) /\ SubSeq(text, 1, Len(word)) = word

\* word in text
Contains(text, word) ==
    \E i \in 1..(Len(text) - Len(word) + 1) :
        SubSeq(text, i, i + Len(word) - 1) = word

\* text.replace(word, ""): one pass from the left, occurrences not overlapping
RECURSIVE remove(_, _)
remove(text, word) ==
    IF text = <<>> THEN <<>>
    ELSE IF StartsWith(text, word)
         THEN remove(SubSeq(text, Len(word) + 1, Len(text)), word)
         ELSE <<Head(text)>> \o remove(Tail(text), word)

\* text.split(sep) for a separator of one character
RECURSIVE split(_, _)
split(text, sep) ==
    IF \E i \in DOMAIN text : text[i] = sep
    THEN LET i == CHOOSE k \in DOMAIN text :
                      text[k] = sep /\ \A j \in 1..(k - 1) : text[j] # sep
         IN  <<SubSeq(text, 1, i - 1)>> \o split(SubSeq(text, i + 1, Len(text)), sep)
    ELSE <<text>>

\* the decimal digits of n, as str(n) writes them
DigitsOf(n) ==
    IF n < 10 THEN <<Digits[n + 1]>>
    ELSE <<Digits[(n \div 10) + 1], Digits[(n % 10) + 1]>>

VKey(n) == <<"V">> \o DigitsOf(n)

\* the values of "V0" .. "V14", in 1/100
VValues == <<5, 10, 15, 25, 35, 45, 55, 60, 70, 78, 85, 92, 96, 98, 100>>

V_SCALE ==
    [k \in {VKey(n) : n \in 0..(Len(VValues) - 1)} |->
        2 * VValues[(CHOOSE n \in 0..(Len(VValues) - 1) : VKey(n) = k) + 1]]

\* the keys of FB_SCALE with their values in 1/100
FBTable ==
    { << <<"5", "A">>, 10 >>, << <<"5", "B">>, 15 >>, << <<"5", "C">>, 20 >>,
      << <<"6", "A">>, 30 >>, << <<"6", "A", "+">>, 35 >>,
      << <<"6", "B">>, 40 >>, << <<"6", "B", "+">>, 45 >>,
      << <<"6", "C">>, 50 >>, << <<"6", "C", "+">>, 55 >>,
      << <<"7", "A">>, 60 >>, << <<"7", "A", "+">>, 65 >>,
      << <<"7", "B">>, 70 >>, << <<"7", "B", "+">>, 75 >>,
      << <<"7", "C">>, 80 >>, << <<"7", "C", "+">>, 85 >>,
      << <<"8", "A">>, 90 >>, << <<"8", "A", "+">>, 92 >>,
      << <<"8", "B">>, 94 >>, << <<"8", "B", "+">>, 96 >>,
      << <<"8", "C">>, 98 >>, << <<"8", "C", "+">>, 100 >> }

FB_SCALE ==
    [k \in {p[1] : p \in FBTable} |-> 2 * (CHOOSE p \in FBTable : p[1] = k)[2]]

\* re.match(r"V(\d+)", text): the text starts with V and at least one digit;
\* the group is the longest run of digits after the V
RECURSIVE DigitRun(_)
DigitRun(text) ==
    IF text # <<>> /\ IsDigit(Head(text))
    THEN <<Head(text)>> \o DigitRun(Tail(text))
    ELSE <<>>

v_match(text) ==
    IF text # <<>> /\ Head(text) = "V" /\ DigitRun(Tail(text)) # <<>>
    THEN [matched |-> TRUE, group |-> DigitRun(Tail(text))]
    ELSE [matched |-> FALSE, group |-> <<>>]

\* base with the soft and hard modifiers, clamped to [0, 1]
Modified(base, soft, hard) ==
    LET b1 == IF soft THEN base - ModifierStep ELSE base
        b2 == IF hard THEN b1 + ModifierStep ELSE b1
    IN  Max2(0, Min2(GradeOne, b2))

RECURSIVE parse_difficulty(_)
parse_difficulty(diff_input) ==
    LET text0 == upper(strip(diff_input))
        soft == Contains(text0, <<"S", "O", "F", "T">>)
        hard == Contains(text0, <<"H", "A", "R", "D">>)
        text == strip(remove(remove(text0, <<"S", "O", "F", "T">>),
                             <<"H", "A", "R", "D">>))
        m == v_match(text)
        grade == <<"V">> \o m.group
        parts == split(text, "-")
    IN  IF m.matched /\ grade \in DOMAIN V_SCALE
        THEN Modified(V_SCALE[grade], soft, hard)
        ELSE IF text \in DOMAIN FB_SCALE
        THEN Modified(FB_SCALE[text], soft, hard)
        ELSE IF Len(parts) = 2
        THEN (parse_difficulty(parts[1]) + parse_difficulty(parts[2])) \div 2
        ELSE DefaultGrade

\* the options of the difficulty selector of the application
diff_options ==
    { <<"V", "3", "-", "V", "5", " ", "(", "B", "e", "g", "i", "n", "n", "e", "r", ")">>,
      <<"V", "6", "-", "V", "8", " ", "(", "I", "n", "t", "e", "r", "m", "e", "d", "i",
        "a", "t", "e", ")">>,
      <<"V", "9", "+", " ", "(", "A", "d", "v", "a", "n", "c", "e", "d", ")">>,
      <<"V", "1", "2", " ", "(", "E", "x", "p", "e", "r", "t", ")">> }

\* the V grades a caller writes: V0 .. V(MaxVGrade), the last one not in V_SCALE
MaxVGrade == 15

GradeTexts == {VKey(n) : n \in 0..MaxVGrade} \cup DOMAIN FB_SCALE

Prefixes == { <<>>, <<"s", "o", "f", "t", " ">>, <<"H", "A", "R", "D", " ">> }

\* the texts a caller passes: a grade or a range of two grades, with or
\* without a modifier word in front; a range may be written with blanks
\* around its dash
DifficultyTexts ==
    {pre \o g : pre \in Prefixes, g \in GradeTexts}
        \cup {pre \o g1 \o <<"-">> \o g2 :
                 pre \in Prefixes, g1 \in GradeTexts, g2 \in GradeTexts}
        \cup {g1 \o <<" ", "-", " ">> \o g2 :
                 g1 \in DOMAIN V_SCALE, g2 \in DOMAIN V_SCALE}

InitParse ==
    /\ holds = BoardGraph
    /\ style = DefaultParams
    /\ difficulty = 45
    /\ call = NoCall
    /\ EngineAtRest

\* parse_difficulty called with a text
ParseDifficulty ==
    /\ call.fn = "none"
    /\ \E text \in DifficultyTexts :
         call' = [fn |-> "parse_difficulty", text |-> text,
                  result |-> parse_difficulty(text)]
    /\ EngineUnchanged

\* the application: the selected option up to its first blank is parsed
SelectDifficulty ==
    /\ call.fn = "none"
    /\ \E diff_input \in diff_options :
         LET text == split(diff_input, " ")[1]
         IN  call' = [fn |-> "parse_difficulty", text |-> text,
                      result |-> parse_difficulty(text)]
    /\ EngineUnchanged

NextParse == ParseDifficulty \/ SelectDifficulty

SpecParse == InitParse /\ [][NextParse]_vars

\* a recognized grade: a key of V_SCALE or of FB_SCALE
RecognizedGrades == DOMAIN V_SCALE \cup DOMAIN FB_SCALE

GradeValue(g) == IF g \in DOMAIN V_SCALE THEN V_SCALE[g] ELSE FB_SCALE[g]

\* C11: parse_difficulty applied to a range label G1-G2 whose two parts are
\* recognized grades (such as V3-V5 or V6-V8, which the difficulty selector
\* of the application passes) returns the average of the values of G1 and
\* G2, and the result lies in [0, 1].
C11_RangeReturnsAverage ==
    call.fn = "parse_difficulty" =>
        \A g1 \in RecognizedGrades, g2 \in RecognizedGrades :
            call.text = g1 \o <<"-">> \o g2 =>
                /\ call.result = (GradeValue(g1) + GradeValue(g2)) \div 2
                /\ call.result >= 0
                /\ call.result <= GradeOne

====
